---- MODULE Spec2Model ----
(***************************************************************************)
(* Model of discord_compressor.cpp: the thread pool, the split-compress    *)
(* pipeline (compress_file), the verify-decompress pipeline                *)
(* (decompress_file) and the top-level handler (main).                     *)
(*                                                                         *)
(* Sizes are scaled down: CHUNK_SIZE and BUFFER_SIZE are a few bytes       *)
(* instead of 20 MiB and 1 MiB, so that inputs of a dozen bytes split into *)
(* ten and more chunks.  32-bit checksums are kept as a pair <<hi, lo>> of *)
(* 16-bit halves.                                                          *)
(***************************************************************************)
EXTENDS Integers, Sequences, FiniteSets, TLC

\* ------------------------------------------------------------------ bounds
MaxFileSize == 10      \* largest input file, in bytes
MaxChunkSize == 3      \* largest value of CHUNK_SIZE that is tried
MaxThreads == 2        \* largest value of hardware_concurrency()
MaxParallelSize == 3   \* larger files are run with at most one worker thread
BUFFER_SIZE == 2       \* the 1 MiB I/O buffer, scaled down
COMPRESSION_LEVEL == 6

MaxTamperFile == 1     \* chunk files 1..MaxTamperFile may have their payload damaged
MaxMemFail == 1        \* chunk indices 0..MaxMemFail may hit Z_MEM_ERROR
MaxTruncate == 1       \* the input may lose up to MaxTruncate bytes after tellg()
MaxFairSize == 2       \* largest input of the runs checked under fair scheduling
MaxHeaderFile == 2     \* chunk files 1..MaxHeaderFile may have their header edited

\* input files repeat a two-byte pattern: "aaaa..." or "abab..."
Patterns == {<<97, 97>>, <<97, 98>>}

\* ------------------------------------------------------ integer helpers
Min(a, b) == IF a < b THEN a ELSE b
Max(a, b) == IF a > b THEN a ELSE b

\* An intermediate value is bound by CHOOSE r \in {e(x) : x \in {v}} : TRUE
\* where it is used more than once, so that it is computed once.

\* bitwise exclusive or of two naturals
RECURSIVE Xor(_, _)
Xor(a, b) ==
    CHOOSE r \in {IF x = 0 THEN y
                  ELSE IF y = 0 THEN x
                  ELSE (((x % 2) + (y % 2)) % 2) + 2 * Xor(x \div 2, y \div 2) :
                  x \in {a}, y \in {b}} : TRUE

\* ------------------------------------------------------------ CRC-32
\* zlib's crc32(): reflected polynomial 0xEDB88320, initial value and final
\* xor 0xFFFFFFFF.  A 32-bit value is the pair <<high 16 bits, low 16 bits>>.
CrcShift(c) ==
    LET hi == c[1] \div 2
        lo == (c[2] \div 2) + ((c[1] % 2) * 32768)
    IN IF c[2] % 2 = 1 THEN <<Xor(hi, 60856), Xor(lo, 33568)>>
                       ELSE <<hi, lo>>

RECURSIVE CrcBits(_, _)
CrcBits(c, k) ==
    IF k = 0 THEN c
    ELSE CHOOSE r \in {CrcBits(CrcShift(d), k - 1) : d \in {c}} : TRUE

RECURSIVE CrcUpdate(_, _, _)
CrcUpdate(c, data, k) ==
    IF k > Len(data) THEN c
    ELSE CHOOSE r \in {CrcUpdate(CrcBits(<<d[1], Xor(d[2], data[k])>>, 8), data, k + 1) :
                         d \in {c}} : TRUE

calculate_crc32(data) ==
    CHOOSE r \in {<<Xor(c[1], 65535), Xor(c[2], 65535)>> :
                  c \in {CrcUpdate(<<65535, 65535>>, d, 1) : d \in {data}}} : TRUE

\* ------------------------------------------------------------ the codec
\* zlib's compress2()/uncompress() are modelled by a stream with zlib's
\* envelope: a header byte (CMF 0x78), a body, and the Adler-32 of the
\* uncompressed bytes as four big-endian bytes.  The body is a run-length
\* coding, <<run, byte, run, byte, ...>>, standing for DEFLATE.
RECURSIVE AdlerA(_, _)
AdlerA(data, k) == IF k = 0 THEN 1 ELSE (AdlerA(data, k - 1) + data[k]) % 65521

RECURSIVE AdlerB(_, _)
AdlerB(data, k) == IF k = 0 THEN 0 ELSE (AdlerB(data, k - 1) + AdlerA(data, k)) % 65521

Adler32Bytes(data) ==
    CHOOSE r \in {<<b \div 256, b % 256, a \div 256, a % 256>> :
                  a \in {AdlerA(d, Len(d)) : d \in {data}},
                  b \in {AdlerB(d, Len(d)) : d \in {data}}} : TRUE

\* length of the run of equal bytes that starts at position k
RECURSIVE RunLen(_, _)
RunLen(data, k) ==
    IF k < Len(data) /\ data[k + 1] = data[k]
    THEN 1 + RunLen(data, k + 1) ELSE 1

RECURSIVE Deflate(_, _)
Deflate(data, k) ==
    IF k > Len(data) THEN <<>>
    ELSE CHOOSE s \in {<<r, data[j]>> \o Deflate(data, j + r) :
                         j \in {k}, r \in {Min(RunLen(data, k), 255)}} : TRUE

RECURSIVE Repeat(_, _)
Repeat(b, n) == IF n = 0 THEN <<>> ELSE <<b>> \o Repeat(b, n - 1)

\* a body is a list of <<run, byte>> pairs with runs of at least one byte
WellFormed(body) ==
    /\ Len(body) % 2 = 0
    /\ \A k \in 1..Len(body) : (k % 2 = 1) => body[k] # 0

\* the bytes a well-formed body expands to
RECURSIVE Inflate(_, _)
Inflate(body, k) ==
    IF k > Len(body) THEN <<>>
    ELSE Repeat(body[k + 1], body[k]) \o Inflate(body, k + 2)

Z_OK == "Z_OK"

\* compress2(): [result, out]; mem_error is the allocator failing (Z_MEM_ERROR)
compress2(input, level, mem_error) ==
    IF mem_error THEN [result |-> "Z_MEM_ERROR", out |-> <<>>]
    ELSE [result |-> Z_OK,
          out |-> <<120>> \o Deflate(input, 1) \o Adler32Bytes(input)]

\* inflate of a stream with a good header byte and a well-formed body, into
\* a destination of capacity dest_len
InflateChecked(body, trailer, dest_len) ==
    CHOOSE r \in {IF Len(plain) > dest_len THEN [result |-> "Z_BUF_ERROR", out |-> <<>>]
                  ELSE IF Adler32Bytes(plain) # trailer
                       THEN [result |-> "Z_DATA_ERROR", out |-> <<>>]
                  ELSE [result |-> Z_OK, out |-> plain] :
                  plain \in {Inflate(body, 1)}} : TRUE

\* uncompress() into a destination of capacity dest_len
uncompress(source, dest_len) ==
    LET n == Len(source)
        body == SubSeq(source, 2, n - 4)
        trailer == SubSeq(source, n - 3, n)
    IN IF n < 5 THEN [result |-> "Z_BUF_ERROR", out |-> <<>>]
       ELSE IF source[1] # 120 \/ ~WellFormed(body)
            THEN [result |-> "Z_DATA_ERROR", out |-> <<>>]
       ELSE InflateChecked(body, trailer, dest_len)

\* compress_data(): [ok, value]; ok = FALSE is the thrown runtime_error
compress_data(input, mem_error) ==
    CHOOSE v \in {IF r.result # Z_OK THEN [ok |-> FALSE, value |-> "Compression failed"]
                  ELSE [ok |-> TRUE, value |-> r.out] :
                  r \in {compress2(input, COMPRESSION_LEVEL, mem_error)}} : TRUE

\* decompress_data() without the test of uncompress()'s result
decompress_data_Unchecked(input, expected_size) ==
    [ok |-> TRUE, value |-> uncompress(input, expected_size).out]

decompress_data(input, expected_size) ==
    CHOOSE v \in {IF r.result # Z_OK THEN [ok |-> FALSE, value |-> "Decompression failed"]
                  ELSE [ok |-> TRUE, value |-> r.out] :
                  r \in {uncompress(input, expected_size)}} : TRUE

\* ------------------------------------------------------ chunk file names
\* std::to_string of a positive number, as character codes
RECURSIVE to_string(_)
to_string(n) == IF n < 10 THEN <<48 + n>> ELSE to_string(n \div 10) \o <<48 + (n % 10)>>

\* "chunk_" + to_string(i + 1) + "_of_" + to_string(num_chunks) + ".dchunk";
\* k is the 1-based display number i + 1
ChunkFileName(k, n) ==
    <<99, 104, 117, 110, 107, 95>> \o to_string(k) \o <<95, 111, 102, 95>>
        \o to_string(n) \o <<46, 100, 99, 104, 117, 110, 107>>

\* operator< of std::string
RECURSIVE StrLess(_, _, _)
StrLess(s, t, k) ==
    IF k > Len(t) THEN FALSE
    ELSE IF k > Len(s) THEN TRUE
    ELSE IF s[k] # t[k] THEN s[k] < t[k]
    ELSE StrLess(s, t, k + 1)


\* ------------------------------------------------------------------ state
VARIABLES
    input_state,     \* "ok", "missing" or "unreadable": the input path
    input,           \* bytes of the input file
    CHUNK_SIZE,      \* the chunk size constant (scaled down)
    hw,              \* std::thread::hardware_concurrency() of the current run
    mem_fail,        \* chunk index whose compress2 call runs out of memory, or -1
    truncated,       \* bytes the input file loses between tellg() and the reads
    disk,            \* output_dir: <<k, n>> |-> the record in chunk_k_of_n.dchunk
    out,             \* the output file of decompress_file: [exists, bytes]
    mode,            \* "c" = main -c, "d" = main -d
    status,          \* "running", "exit0", "exit1", "terminate", "crash"
    pc,              \* position of the main thread
    thrown,          \* what() of the exception thrown, "" when none
    cerr,            \* what main wrote to std::cerr
    file_size, num_chunks,
    chunks,          \* std::vector<ChunkData>, indexed from 0
    i, bytes_read,   \* loop counters of the main thread
    chunk_files,     \* decompress_file: sorted list of discovered files
    first_metadata,  \* decompress_file: header of chunk_files[0]
    buffer,          \* decompress_file: reassembly buffer
    threads,         \* ThreadPool::threads: worker w |-> [pc, task]
    tasks,           \* ThreadPool::tasks, a FIFO of chunk indices
    stop,            \* ThreadPool::stop
    pool,            \* "none", "live" or "destroyed"
    teardowns,       \* number of times ~ThreadPool() has run on the pool
    tamper,          \* what was done to the chunk directory between the runs
    taken            \* the tasks the workers took off the queue, in order

env == <<input_state, input, CHUNK_SIZE, hw, mem_fail, truncated>>
files == <<disk, out>>
proc == <<mode, status, pc, thrown, cerr>>
locals == <<file_size, num_chunks, chunks, i, bytes_read>>
dlocals == <<chunk_files, first_metadata, buffer>>
poolv == <<threads, tasks, stop, pool, teardowns>>
hist == <<tamper, taken>>
vars == <<env, files, proc, locals, dlocals, poolv, hist>>

\* fs::path(input_path).filename().string(): "video"
filename == <<118, 105, 100, 101, 111>>

MAGIC == "DCHUNKV1"

\* ChunkData{}: empty buffers, processed = false
ChunkData == [data |-> <<>>, compressed_data |-> <<>>, processed |-> FALSE]

\* ChunkMetadata before any field but magic is assigned
NoMetadata ==
    [magic |-> MAGIC, chunk_index |-> 0, total_chunks |-> 0,
     original_file_size |-> 0, uncompressed_chunk_size |-> 0,
     compressed_size |-> 0, filename_length |-> 0, crc32_checksum |-> <<0, 0>>]

\* the file with s bytes of pattern p
Fill(p, s) == [k \in 1..s |-> p[((k - 1) % 2) + 1]]

InputFiles == {Fill(p, s) : p \in Patterns, s \in 0..MaxFileSize}

\* ceil(S / C) for the input of S bytes and the chunk size C: the least n
\* with n * C >= S
ExpectedChunks ==
    CHOOSE n \in 0..MaxFileSize :
        /\ n * CHUNK_SIZE >= Len(input)
        /\ \A m \in 0..MaxFileSize : m * CHUNK_SIZE >= Len(input) => m >= n

\* nothing was done to the chunk directory
NoTamper == [kind |-> "none", file |-> <<0, 0>>, arg |-> <<0, 0>>]

Init ==
    /\ input_state \in {"ok", "missing", "unreadable"}
    /\ input \in InputFiles
    /\ CHUNK_SIZE \in 1..MaxChunkSize
    /\ hw \in 0..MaxThreads
    /\ Len(input) > MaxParallelSize => hw <= 1
    /\ mem_fail \in -1..MaxMemFail
    /\ mem_fail < ExpectedChunks
    /\ truncated \in 0..MaxTruncate
    /\ truncated <= Len(input)
    /\ disk = <<>>
    /\ out = [exists |-> FALSE, bytes |-> <<>>]
    /\ mode = "c"
    /\ status = "running"
    /\ pc = "c_begin"
    /\ thrown = ""
    /\ cerr = ""
    /\ file_size = 0 /\ num_chunks = 0
    /\ chunks = <<>>
    /\ i = 0 /\ bytes_read = 0
    /\ chunk_files = <<>>
    /\ first_metadata = NoMetadata
    /\ buffer = <<>>
    /\ threads = <<>>
    /\ tasks = <<>>
    /\ stop = FALSE
    /\ pool = "none"
    /\ teardowns = 0
    /\ tamper = NoTamper
    /\ taken = <<>>

Running == status = "running"

\* throw std::runtime_error(msg) on the main thread: unwind the function
Throw(msg) ==
    /\ thrown' = msg
    /\ pc' = "scope_exit"
    /\ UNCHANGED <<mode, status, cerr>>

Goto(l) ==
    /\ pc' = l
    /\ UNCHANGED <<mode, status, thrown, cerr>>

\* ------------------------------------------------------------ ThreadPool
\* number of tasks the pipeline submits
NumTasks == IF mode = "c" THEN num_chunks ELSE first_metadata.total_chunks

\* where the main thread continues once the pool is drained
AfterDrain == IF mode = "c" THEN "c_write" ELSE "d_open"

Workers == DOMAIN threads
Waiting == {w \in Workers : threads[w].pc = "wait"}

\* ThreadPool(num_threads): start the workers
ThreadPoolNew ==
    /\ Running /\ pc = "pool_new"
    /\ threads' = [w \in 1..hw |-> [pc |-> "lock", task |-> -1]]
    /\ tasks' = <<>>
    /\ stop' = FALSE
    /\ pool' = "live"
    /\ i' = 0
    /\ Goto(IF NumTasks > 0 THEN "enq" ELSE "dtor")
    /\ taken' = <<>>
    /\ UNCHANGED <<env, files, file_size, num_chunks, chunks, bytes_read,
                   dlocals, teardowns, tamper>>

\* enqueue(): tasks.emplace(f) under the lock
Enqueue ==
    /\ Running /\ pc = "enq"
    /\ tasks' = Append(tasks, i)
    /\ Goto("enq_notify")
    /\ UNCHANGED <<env, files, locals, dlocals, threads, stop, pool, teardowns, hist>>

\* enqueue(): cv.notify_one(), then the submit loop's ++i
EnqueueNotify ==
    /\ Running /\ pc = "enq_notify"
    /\ IF Waiting = {}
       THEN threads' = threads
       ELSE \E w \in Waiting : threads' = [threads EXCEPT ![w].pc = "lock"]
    /\ i' = i + 1
    /\ Goto(IF i + 1 < NumTasks THEN "enq" ELSE "dtor")
    /\ UNCHANGED <<env, files, file_size, num_chunks, chunks, bytes_read,
                   dlocals, tasks, stop, pool, teardowns, hist>>

\* ~ThreadPool(): stop = true under the lock
DtorStop ==
    /\ Running /\ pc = "dtor"
    /\ stop' = TRUE
    /\ teardowns' = teardowns + 1
    /\ Goto("dtor_notify")
    /\ UNCHANGED <<env, files, locals, dlocals, threads, tasks, pool, hist>>

\* DtorNotifyAll without the call of cv.notify_all()
DtorNotifyAll_NoNotify ==
    /\ Running /\ pc = "dtor_notify"
    /\ IF hw = 0
       THEN i' = 0 /\ pool' = "destroyed" /\ Goto(AfterDrain)
       ELSE i' = 1 /\ pool' = pool /\ Goto("dtor_join")
    /\ UNCHANGED <<env, files, file_size, num_chunks, chunks, bytes_read,
                   dlocals, threads, tasks, stop, teardowns, hist>>

\* ~ThreadPool(): cv.notify_all()
DtorNotifyAll ==
    /\ Running /\ pc = "dtor_notify"
    /\ threads' = [w \in Workers |->
                     IF threads[w].pc = "wait" THEN [threads[w] EXCEPT !.pc = "lock"]
                     ELSE threads[w]]
    /\ IF hw = 0
       THEN i' = 0 /\ pool' = "destroyed" /\ Goto(AfterDrain)
       ELSE i' = 1 /\ pool' = pool /\ Goto("dtor_join")
    /\ UNCHANGED <<env, files, file_size, num_chunks, chunks, bytes_read,
                   dlocals, tasks, stop, teardowns, hist>>

\* DtorJoin with a join that does not wait for the worker to return
DtorJoin_NoWait ==
    /\ Running /\ pc = "dtor_join"
    /\ IF i = hw
       THEN i' = 0 /\ pool' = "destroyed" /\ Goto(AfterDrain)
       ELSE i' = i + 1 /\ pool' = pool /\ Goto("dtor_join")
    /\ UNCHANGED <<env, files, file_size, num_chunks, chunks, bytes_read,
                   dlocals, threads, tasks, stop, teardowns, hist>>

\* ~ThreadPool(): thread.join() of worker i, which blocks until it has returned
DtorJoin ==
    /\ Running /\ pc = "dtor_join"
    /\ threads[i].pc = "done"
    /\ threads' = [threads EXCEPT ![i].pc = "joined"]
    /\ IF i = hw
       THEN i' = 0 /\ pool' = "destroyed" /\ Goto(AfterDrain)
       ELSE i' = i + 1 /\ pool' = pool /\ Goto("dtor_join")
    /\ UNCHANGED <<env, files, file_size, num_chunks, chunks, bytes_read,
                   dlocals, tasks, stop, teardowns, hist>>

\* worker loop: lock, cv.wait(lock, stop || !tasks.empty()), then return or
\* take tasks.front()
WorkerLock(w) ==
    /\ Running /\ threads[w].pc = "lock"
    /\ IF ~(stop \/ tasks # <<>>)
       THEN /\ threads' = [threads EXCEPT ![w].pc = "wait"]
            /\ UNCHANGED <<tasks, taken>>
       ELSE IF stop /\ tasks = <<>>
       THEN /\ threads' = [threads EXCEPT ![w].pc = "done"]
            /\ UNCHANGED <<tasks, taken>>
       ELSE /\ threads' = [threads EXCEPT ![w] = [pc |-> "task", task |-> Head(tasks)]]
            /\ tasks' = Tail(tasks)
            /\ taken' = Append(taken, Head(tasks))
    /\ UNCHANGED <<env, files, proc, locals, dlocals, stop, pool, teardowns, tamper>>

\* a waiting worker wakes up without a notification and checks again
WorkerSpurious(w) ==
    /\ Running /\ threads[w].pc = "wait"
    /\ threads' = [threads EXCEPT ![w].pc = "lock"]
    /\ UNCHANGED <<env, files, proc, locals, dlocals, tasks, stop, pool, teardowns, hist>>

\* the task of compress_file for chunk t
CompressTask(t) ==
    CHOOSE v \in {IF r.ok
                  THEN [ok |-> TRUE,
                        chunk |-> [chunks[t] EXCEPT !.compressed_data = r.value,
                                                    !.processed = TRUE]]
                  ELSE [ok |-> FALSE, what |-> r.value] :
                  r \in {compress_data(chunks[t].data, t = mem_fail)}} : TRUE

\* the headers a task may find when it reads the header of chunk_files[t]:
\* the header of that file, or, when t is past the end of chunk_files, what an
\* unopened stream leaves in the uninitialised ChunkMetadata on the stack
TaskHeaders(t) ==
    IF t < Len(chunk_files) THEN {disk[chunk_files[t + 1]]}
    ELSE {disk[f] : f \in DOMAIN disk} \cup {NoMetadata}

\* the task of decompress_file for slot t, having read header h
DecompressTask(t, h) ==
    CHOOSE v \in {IF ~r.ok THEN [ok |-> FALSE, what |-> r.value, chunk |-> chunks[t]]
                  ELSE IF calculate_crc32(r.value) # h.crc32_checksum
                  THEN [ok |-> FALSE, what |-> "CRC32 checksum mismatch",
                        chunk |-> [chunks[t] EXCEPT !.data = r.value]]
                  ELSE [ok |-> TRUE, what |-> "",
                        chunk |-> [chunks[t] EXCEPT !.data = r.value, !.processed = TRUE]] :
                  r \in {decompress_data(chunks[t].compressed_data,
                                         h.uncompressed_chunk_size)}} : TRUE

\* WorkerCompress with a worker loop that catches the exception of a task and
\* goes on to the next task
WorkerCompress_Swallow(w) ==
    /\ Running /\ mode = "c" /\ threads[w].pc = "task"
    /\ \E r \in {CompressTask(threads[w].task)} :
          chunks' = IF r.ok THEN [chunks EXCEPT ![threads[w].task] = r.chunk] ELSE chunks
    /\ threads' = [threads EXCEPT ![w].pc = "lock"]
    /\ UNCHANGED <<env, files, proc, file_size, num_chunks, i, bytes_read, dlocals,
                   tasks, stop, pool, teardowns, hist>>

\* task(): an exception that leaves the thread function calls std::terminate
WorkerCompress(w) ==
    /\ Running /\ mode = "c" /\ threads[w].pc = "task"
    /\ \E r \in {CompressTask(threads[w].task)} :
          IF r.ok
          THEN /\ chunks' = [chunks EXCEPT ![threads[w].task] = r.chunk]
               /\ threads' = [threads EXCEPT ![w].pc = "lock"]
               /\ UNCHANGED proc
          ELSE /\ status' = "terminate"
               /\ thrown' = r.what
               /\ UNCHANGED <<chunks, threads, mode, pc, cerr>>
    /\ UNCHANGED <<env, files, file_size, num_chunks, i, bytes_read, dlocals,
                   tasks, stop, pool, teardowns, hist>>

WorkerDecompress(w) ==
    /\ Running /\ mode = "d" /\ threads[w].pc = "task"
    /\ \E h \in TaskHeaders(threads[w].task) :
         \E r \in {DecompressTask(threads[w].task, h)} :
            /\ chunks' = [chunks EXCEPT ![threads[w].task] = r.chunk]
            /\ IF r.ok
               THEN /\ threads' = [threads EXCEPT ![w].pc = "lock"]
                    /\ UNCHANGED proc
               ELSE /\ status' = "terminate"
                    /\ thrown' = r.what
                    /\ UNCHANGED <<threads, mode, pc, cerr>>
    /\ UNCHANGED <<env, files, file_size, num_chunks, i, bytes_read, dlocals,
                   tasks, stop, pool, teardowns, hist>>

\* chunk_files[t] with t past the end of the vector: the read of the
\* std::string out of bounds may also fault
WorkerFault(w) ==
    /\ Running /\ mode = "d" /\ threads[w].pc = "task"
    /\ threads[w].task >= Len(chunk_files)
    /\ status' = "crash"
    /\ UNCHANGED <<env, files, mode, pc, thrown, cerr, locals, dlocals, poolv, hist>>

\* -------------------------------------------------------- compress_file
\* num_chunks rounded down instead of up
NumChunks_Floor(size) == size \div CHUNK_SIZE

\* size_t num_chunks = (file_size + CHUNK_SIZE - 1) / CHUNK_SIZE
NumChunks(size) == (size + CHUNK_SIZE - 1) \div CHUNK_SIZE

\* existence and open checks, file size, num_chunks, chunks(num_chunks)
CompressBegin ==
    /\ Running /\ pc = "c_begin"
    /\ IF input_state = "missing"
       THEN Throw("Input file does not exist") /\ UNCHANGED locals
       ELSE IF input_state = "unreadable"
       THEN Throw("Cannot open input file") /\ UNCHANGED locals
       ELSE /\ file_size' = Len(input)
            /\ num_chunks' = NumChunks(Len(input))
            /\ chunks' = [k \in 0..(NumChunks(Len(input)) - 1) |-> ChunkData]
            /\ i' = 0 /\ bytes_read' = 0
            /\ Goto(IF Len(input) > 0 THEN "c_read" ELSE "pool_new")
    /\ UNCHANGED <<env, files, dlocals, poolv, hist>>

\* input.gcount() after input.read() of to_read bytes at offset pos: the
\* bytes the file still holds there, none at or past its end
Gcount(pos, to_read) == Max(0, Min(to_read, (Len(input) - truncated) - pos))

\* one iteration of the inner read loop for chunk i: input.read(), gcount(),
\* insert, bytes_read += actual_read, and the two loop tests
CompressRead ==
    /\ Running /\ pc = "c_read"
    /\ LET bytes_to_read == Min(CHUNK_SIZE, file_size - (i * CHUNK_SIZE))
           to_read == Min(BUFFER_SIZE, bytes_to_read - bytes_read)
           pos == (i * CHUNK_SIZE) + bytes_read
           actual_read == Gcount(pos, to_read)
           done == bytes_read + actual_read >= bytes_to_read
       IN /\ chunks' = [chunks EXCEPT ![i].data = @ \o SubSeq(input, pos + 1, pos + actual_read)]
          /\ bytes_read' = IF done THEN 0 ELSE bytes_read + actual_read
          /\ i' = IF done THEN i + 1 ELSE i
          /\ Goto(IF done /\ i + 1 >= num_chunks THEN "pool_new" ELSE "c_read")
    /\ UNCHANGED <<env, files, file_size, num_chunks, dlocals, poolv, hist>>

\* ChunkRecord with compressed_size taken from the uncompressed buffer
ChunkRecord_WrongSize(k) ==
    [magic |-> MAGIC,
     chunk_index |-> k,
     total_chunks |-> num_chunks,
     original_file_size |-> file_size,
     uncompressed_chunk_size |-> Len(chunks[k].data),
     compressed_size |-> Len(chunks[k].data),
     filename_length |-> Len(filename),
     crc32_checksum |-> calculate_crc32(chunks[k].data),
     filename |-> filename,
     payload |-> chunks[k].compressed_data]

\* the ChunkMetadata and record compress_file writes for chunk k
ChunkRecord(k) ==
    [magic |-> MAGIC,
     chunk_index |-> k,
     total_chunks |-> num_chunks,
     original_file_size |-> file_size,
     uncompressed_chunk_size |-> Len(chunks[k].data),
     compressed_size |-> Len(chunks[k].compressed_data),
     filename_length |-> Len(filename),
     crc32_checksum |-> calculate_crc32(chunks[k].data),
     filename |-> filename,
     payload |-> chunks[k].compressed_data]

\* a file created or overwritten in a directory
WriteFile(dir, name, rec) ==
    [f \in DOMAIN dir \cup {name} |-> IF f = name THEN rec ELSE dir[f]]

\* one iteration of the write loop: the processed check, then the record
CompressWrite ==
    /\ Running /\ pc = "c_write"
    /\ IF i >= num_chunks
       THEN Goto("scope_exit") /\ UNCHANGED <<disk, i>>
       ELSE IF ~chunks[i].processed
       THEN Throw("Chunk processing failed") /\ UNCHANGED <<disk, i>>
       ELSE /\ disk' = WriteFile(disk, <<i + 1, num_chunks>>, ChunkRecord(i))
            /\ i' = i + 1
            /\ Goto("c_write")
    /\ UNCHANGED <<env, out, file_size, num_chunks, chunks, bytes_read,
                   dlocals, poolv, hist>>

\* ------------------------------------------------------ decompress_file
\* the least file name of a non-empty set of files, by std::string order
MinFile(fs) ==
    CHOOSE f \in fs : \A g \in fs \ {f} :
        StrLess(ChunkFileName(f[1], f[2]), ChunkFileName(g[1], g[2]), 1)

\* std::sort(chunk_files.begin(), chunk_files.end())
RECURSIVE SortFiles(_)
SortFiles(fs) ==
    IF fs = {} THEN <<>>
    ELSE CHOOSE s \in {<<f>> \o SortFiles(rest \ {f}) :
                         f \in {MinFile(fs)}, rest \in {fs}} : TRUE

\* istream::read of n bytes into a zero-filled buffer of n bytes
ReadBytes(bytes, n) == [k \in 1..n |-> IF k <= Len(bytes) THEN bytes[k] ELSE 0]

\* directory listing, sort, header of chunk_files[0], chunks(total_chunks)
DecompressBegin ==
    /\ Running /\ pc = "d_begin"
    /\ IF DOMAIN disk = {}
       THEN /\ Throw("No chunk files found in directory")
            /\ UNCHANGED <<chunk_files, first_metadata, chunks, i>>
       ELSE LET sorted == SortFiles(DOMAIN disk)
                first == disk[sorted[1]]
            IN /\ chunk_files' = sorted
               /\ first_metadata' = [f \in DOMAIN NoMetadata |-> first[f]]
               /\ IF first.magic # MAGIC
                  THEN Throw("Invalid chunk file format") /\ UNCHANGED <<chunks, i>>
                  ELSE /\ chunks' = [k \in 0..(first.total_chunks - 1) |-> ChunkData]
                       /\ i' = 0
                       /\ Goto(IF first.total_chunks > 0 THEN "d_load" ELSE "pool_new")
    /\ UNCHANGED <<env, files, file_size, num_chunks, bytes_read, buffer, poolv, hist>>

\* one iteration of the loading loop: header and payload of chunk_files[i]
\* go to the slot chunks[metadata.chunk_index].  No test is made of
\* metadata.magic or of metadata.chunk_index.  With chunk_index past the end
\* of chunks the writes go out of bounds and the behaviour is undefined: they
\* land outside the slots and the run goes on, or the process dies
DecompressLoad ==
    /\ Running /\ pc = "d_load"
    /\ LET metadata == disk[chunk_files[i + 1]]
           next == IF i + 1 < Len(chunk_files) /\ i + 1 < first_metadata.total_chunks
                   THEN "d_load" ELSE "pool_new"
       IN IF metadata.chunk_index < first_metadata.total_chunks
          THEN /\ chunks' = [chunks EXCEPT ![metadata.chunk_index].compressed_data =
                                 ReadBytes(metadata.payload, metadata.compressed_size)]
               /\ i' = i + 1
               /\ Goto(next)
          ELSE \E outcome \in {"benign", "crash"} :
                  IF outcome = "benign"
                  THEN i' = i + 1 /\ Goto(next) /\ UNCHANGED chunks
                  ELSE status' = "crash" /\ UNCHANGED <<mode, pc, thrown, cerr, chunks, i>>
    /\ UNCHANGED <<env, files, file_size, num_chunks, bytes_read, dlocals, poolv, hist>>

\* std::ofstream output(final_output_path): the file is created empty
DecompressOpen ==
    /\ Running /\ pc = "d_open"
    /\ out' = [exists |-> TRUE, bytes |-> <<>>]
    /\ buffer' = <<>>
    /\ i' = 0 /\ bytes_read' = 0
    /\ Goto("d_check")
    /\ UNCHANGED <<env, disk, file_size, num_chunks, chunks, chunk_files,
                   first_metadata, poolv, hist>>

\* DecompressCheck without the write of the rest of the buffer after the loop
DecompressCheck_NoFinalFlush ==
    /\ Running /\ pc = "d_check"
    /\ IF i >= first_metadata.total_chunks
       THEN /\ buffer' = <<>>
            /\ Goto("scope_exit")
            /\ UNCHANGED <<out, i>>
       ELSE IF ~chunks[i].processed
       THEN Throw("Chunk decompression failed") /\ UNCHANGED <<out, buffer, i>>
       ELSE IF chunks[i].data = <<>>
       THEN Goto("d_check") /\ i' = i + 1 /\ UNCHANGED <<out, buffer>>
       ELSE Goto("d_push") /\ UNCHANGED <<out, buffer, i>>
    /\ UNCHANGED <<env, disk, file_size, num_chunks, chunks, bytes_read,
                   chunk_files, first_metadata, poolv, hist>>

\* reassembly loop: the loop test and the processed check of chunk i; after
\* the loop the rest of the buffer is written and the file closed
DecompressCheck ==
    /\ Running /\ pc = "d_check"
    /\ IF i >= first_metadata.total_chunks
       THEN /\ out' = [out EXCEPT !.bytes = @ \o buffer]
            /\ buffer' = <<>>
            /\ Goto("scope_exit")
            /\ UNCHANGED i
       ELSE IF ~chunks[i].processed
       THEN Throw("Chunk decompression failed") /\ UNCHANGED <<out, buffer, i>>
       ELSE IF chunks[i].data = <<>>
       THEN Goto("d_check") /\ i' = i + 1 /\ UNCHANGED <<out, buffer>>
       ELSE Goto("d_push") /\ UNCHANGED <<out, buffer, i>>
    /\ UNCHANGED <<env, disk, file_size, num_chunks, chunks, bytes_read,
                   chunk_files, first_metadata, poolv, hist>>

\* buffer.push_back(byte) and the flush when the buffer is full
DecompressPush ==
    /\ Running /\ pc = "d_push"
    /\ LET pushed == Append(buffer, chunks[i].data[bytes_read + 1])
           last == bytes_read + 1 >= Len(chunks[i].data)
       IN /\ IF Len(pushed) >= BUFFER_SIZE
             THEN out' = [out EXCEPT !.bytes = @ \o pushed] /\ buffer' = <<>>
             ELSE out' = out /\ buffer' = pushed
          /\ bytes_read' = IF last THEN 0 ELSE bytes_read + 1
          /\ i' = IF last THEN i + 1 ELSE i
          /\ Goto(IF last THEN "d_check" ELSE "d_push")
    /\ UNCHANGED <<env, disk, file_size, num_chunks, chunks, chunk_files,
                   first_metadata, poolv, hist>>

\* ----------------------------------------------------- scope exit, main
\* return or unwinding out of a pipeline before its pool was constructed
ScopeExit ==
    /\ Running /\ pc = "scope_exit" /\ pool = "none"
    /\ Goto("main")
    /\ UNCHANGED <<env, files, locals, dlocals, poolv, hist>>

\* return or unwinding with the pool in scope: ~ThreadPool() runs on the
\* object that pool.~ThreadPool() has destroyed already.  The behaviour is
\* undefined: the run goes on, or it dies in the second teardown
ScopeExitPool ==
    /\ Running /\ pc = "scope_exit" /\ pool = "destroyed"
    /\ teardowns' = teardowns + 1
    /\ \E outcome \in {"benign", "crash"} :
         IF outcome = "benign"
         THEN Goto("main")
         ELSE status' = "crash" /\ UNCHANGED <<mode, pc, thrown, cerr>>
    /\ UNCHANGED <<env, files, locals, dlocals, threads, tasks, stop, pool, hist>>

\* main: return 0, or the catch block: message to std::cerr and return 1
Main ==
    /\ Running /\ pc = "main"
    /\ IF thrown = ""
       THEN status' = "exit0" /\ cerr' = cerr
       ELSE status' = "exit1" /\ cerr' = thrown
    /\ UNCHANGED <<env, files, mode, pc, thrown, locals, dlocals, poolv, hist>>

\* ------------------------------------------------------- the environment
CompressEnded == mode = "c" /\ status # "running"

\* a chunk file is removed from the directory between the two runs
DeleteFile ==
    /\ CompressEnded /\ tamper = NoTamper
    /\ \E f \in DOMAIN disk :
         /\ disk' = [g \in DOMAIN disk \ {f} |-> disk[g]]
         /\ tamper' = [kind |-> "delete", file |-> f, arg |-> <<0, 0>>]
    /\ UNCHANGED <<env, out, proc, locals, dlocals, poolv, taken>>

\* one bit of one payload byte of a chunk file flips on disk
FlipBit ==
    /\ CompressEnded /\ tamper = NoTamper
    /\ \E f \in DOMAIN disk : \E p \in 1..Len(disk[f].payload) :
         /\ f[1] <= MaxTamperFile
         /\ disk' = [disk EXCEPT ![f].payload[p] = Xor(@, 1)]
         /\ tamper' = [kind |-> "flip", file |-> f, arg |-> <<p, 0>>]
    /\ UNCHANGED <<env, out, proc, locals, dlocals, poolv, taken>>

\* the payload section of a chunk file is overwritten with another valid
\* compressed stream of the same length, the payload of another chunk file
Overwrite ==
    /\ CompressEnded /\ tamper = NoTamper
    /\ \E f \in DOMAIN disk : \E g \in DOMAIN disk \ {f} :
         /\ f[1] <= MaxTamperFile
         /\ disk[g].payload # disk[f].payload
         /\ Len(disk[g].payload) = Len(disk[f].payload)
         /\ disk' = [disk EXCEPT ![f].payload = disk[g].payload]
         /\ tamper' = [kind |-> "overwrite", file |-> f, arg |-> g]
    /\ UNCHANGED <<env, out, proc, locals, dlocals, poolv, taken>>

\* the magic tag in the header of a chunk file is damaged
SetMagic ==
    /\ CompressEnded /\ tamper = NoTamper
    /\ \E f \in DOMAIN disk :
         /\ f[1] <= MaxHeaderFile
         /\ disk' = [disk EXCEPT ![f].magic = "XCHUNKV1"]
         /\ tamper' = [kind |-> "magic", file |-> f, arg |-> <<0, 0>>]
    /\ UNCHANGED <<env, out, proc, locals, dlocals, poolv, taken>>

\* the chunk_index field in the header of a chunk file takes another value,
\* as in a record left in the directory by a run that wrote more chunks
SetIndex ==
    /\ CompressEnded /\ tamper = NoTamper
    /\ \E f \in DOMAIN disk : \E v \in 0..disk[f].total_chunks :
         /\ f[1] <= MaxHeaderFile
         /\ v # disk[f].chunk_index
         /\ disk' = [disk EXCEPT ![f].chunk_index = v]
         /\ tamper' = [kind |-> "index", file |-> f, arg |-> <<v, 0>>]
    /\ UNCHANGED <<env, out, proc, locals, dlocals, poolv, taken>>

\* the next process: main -d on the chunk directory, on a machine that may
\* report another number of hardware threads
StartDecompress ==
    /\ CompressEnded
    /\ \E h \in 0..MaxThreads :
         /\ Len(input) > MaxParallelSize => h <= 1
         /\ hw' = h
    /\ mode' = "d" /\ status' = "running" /\ pc' = "d_begin"
    /\ thrown' = "" /\ cerr' = ""
    /\ file_size' = 0 /\ num_chunks' = 0 /\ chunks' = <<>>
    /\ i' = 0 /\ bytes_read' = 0
    /\ threads' = <<>> /\ tasks' = <<>> /\ stop' = FALSE
    /\ pool' = "none" /\ teardowns' = 0
    /\ taken' = <<>>
    /\ UNCHANGED <<input_state, input, CHUNK_SIZE, mem_fail, truncated, files, dlocals, tamper>>

Next ==
    \/ CompressBegin \/ CompressRead \/ CompressWrite
    \/ ThreadPoolNew \/ Enqueue \/ EnqueueNotify
    \/ DtorStop \/ DtorNotifyAll \/ DtorJoin
    \/ \E w \in Workers : WorkerLock(w)
    \/ \E w \in Workers : WorkerSpurious(w)
    \/ \E w \in Workers : WorkerCompress(w)
    \/ \E w \in Workers : WorkerDecompress(w)
    \/ \E w \in Workers : WorkerFault(w)
    \/ DecompressBegin \/ DecompressLoad \/ DecompressOpen
    \/ DecompressCheck \/ DecompressPush
    \/ ScopeExit \/ ScopeExitPool \/ Main
    \/ DeleteFile \/ FlipBit \/ Overwrite \/ SetMagic \/ SetIndex
    \/ StartDecompress

Spec == Init /\ [][Next]_vars

\* the steps of the main thread, a sequential program
MainThread ==
    \/ CompressBegin \/ CompressRead \/ CompressWrite
    \/ ThreadPoolNew \/ Enqueue \/ EnqueueNotify
    \/ DtorStop \/ DtorNotifyAll \/ DtorJoin
    \/ DecompressBegin \/ DecompressLoad \/ DecompressOpen
    \/ DecompressCheck \/ DecompressPush
    \/ ScopeExit \/ ScopeExitPool \/ Main

\* the steps of worker thread w that need no event from outside the thread:
\* taking the lock and testing the wait predicate, and running the task
WorkerThread(w) ==
    /\ w \in Workers
    /\ (WorkerLock(w) \/ WorkerCompress(w) \/ WorkerDecompress(w))

\* a fair scheduler: every thread that can take a step eventually takes one.
\* A worker blocked in cv.wait is owed no wakeup but those of notify_one and
\* notify_all, so there is no fairness on WorkerSpurious
\* the runs on the inputs "", "a", "ab", ... of at most MaxFairSize bytes in
\* which no compress2 call runs out of memory
InitFair ==
    /\ Init
    /\ Len(input) <= MaxFairSize
    /\ input = Fill(<<97, 98>>, Len(input))
    /\ mem_fail = -1

FairSpec ==
    /\ InitFair /\ [][Next]_vars
    /\ WF_vars(MainThread)
    /\ \A w \in 1..MaxThreads : WF_vars(WorkerThread(w))

\* ------------------------------------------------------------ the claims
\* the directory holds the records compress_file wrote for the input, all of
\* them and as written
CompleteSet ==
    /\ Len(input) > 0
    /\ tamper = NoTamper
    /\ DOMAIN disk = {<<k, ExpectedChunks>> : k \in 1..ExpectedChunks}

\* the statements of decompress_file have all run, or a task has ended the run
BodyEnded == (pc = "scope_exit" /\ status = "running") \/ status = "terminate"

\* C1 (as claimed): round trip.  For every input of at least one chunk, once
\* compress_file has written the complete set of records, the decompress run
\* on that set ends with exit status 0 and an output file equal to the input.
C1_RoundTrip ==
    (mode = "d" /\ CompleteSet /\ status # "running")
        => (status = "exit0" /\ out.exists /\ out.bytes = input)

\* C2 (as claimed): order independence.  For a complete chunk set and a pool
\* with workers, decompress_file runs to the end of its reassembly without an
\* error and has then written the original bytes, also when the sorted file
\* list is not in chunk_index order (ten chunks and more).
C2_OrderIndependent ==
    (mode = "d" /\ CompleteSet /\ hw >= 1 /\ BodyEnded)
        => (status = "running" /\ thrown = "" /\ out.bytes = input)

\* the directory lacks the record of a chunk_index below total_chunks
Incomplete ==
    \E f \in DOMAIN disk : \E idx \in 0..(disk[f].total_chunks - 1) :
        \A g \in DOMAIN disk : disk[g].chunk_index # idx

\* the pipeline has run to its end without throwing
Succeeded == thrown = "" /\ status \in {"running", "exit0"} /\ pc \in {"scope_exit", "main"}

\* C3: incompleteness detection.  A decompress run on a directory that lacks
\* the record of a chunk index never reaches its successful end, so no
\* truncated output is passed off as the result.
C3_IncompleteFails ==
    (mode = "d" /\ Incomplete) => (~Succeeded /\ status # "exit0")

\* C3 witness: a run on an incomplete directory, ended by the task of the
\* slot that has no payload
C3_Witness ==
    /\ mode = "d" /\ Incomplete /\ tamper.kind = "delete"
    /\ status = "terminate" /\ thrown = "Decompression failed"

\* C4 (as claimed): integrity gate.  A slot is marked processed only if the
\* CRC-32 of its decompressed bytes equals the crc32_checksum in the header of
\* the record with that chunk_index, and a run on a directory with a damaged
\* payload never succeeds.
C4_IntegrityGate ==
    mode = "d" =>
        /\ \A t \in DOMAIN chunks :
              chunks[t].processed =>
                  \E f \in DOMAIN disk :
                      /\ disk[f].chunk_index = t
                      /\ calculate_crc32(chunks[t].data) = disk[f].crc32_checksum
        /\ tamper.kind \in {"flip", "overwrite"} => ~Succeeded

\* sum of uncompressed_chunk_size over the records chunk_1 .. chunk_k
RECURSIVE SumSizes(_, _)
SumSizes(k, n) ==
    IF k = 0 THEN 0 ELSE disk[<<k, n>>].uncompressed_chunk_size + SumSizes(k - 1, n)

\* C5: index invariant.  compress_file computes total_chunks = ceil(S / C);
\* once read, chunk k holds the min(C, S - k*C) bytes at offsets k*C onwards;
\* every record carries that size, and after a successful run the sizes of the
\* records add up to S.
C5_IndexInvariant ==
    (mode = "c" /\ tamper = NoTamper /\ input_state = "ok" /\ pc # "c_begin") =>
        /\ num_chunks * CHUNK_SIZE >= Len(input)
        /\ num_chunks > 0 => (num_chunks - 1) * CHUNK_SIZE < Len(input)
        /\ Len(input) = 0 => num_chunks = 0
        /\ pc # "c_read" =>
              \A k \in 0..(num_chunks - 1) :
                  /\ Len(chunks[k].data) = Min(CHUNK_SIZE, Len(input) - (k * CHUNK_SIZE))
                  /\ \A j \in 1..Len(chunks[k].data) :
                        chunks[k].data[j] = input[(k * CHUNK_SIZE) + j]
        /\ \A f \in DOMAIN disk :
              disk[f].uncompressed_chunk_size =
                  Min(CHUNK_SIZE, Len(input) - ((f[1] - 1) * CHUNK_SIZE))
        /\ Succeeded =>
              /\ Cardinality(DOMAIN disk) = num_chunks
              /\ SumSizes(num_chunks, num_chunks) = Len(input)

\* C5 witness: a successful run on an input that is not a multiple of the
\* chunk size: three records with a shorter last one (the 45 MiB scenario)
C5_Witness ==
    /\ mode = "c" /\ status = "exit0"
    /\ Len(input) = (2 * CHUNK_SIZE) + 1 /\ CHUNK_SIZE > 1
    /\ Cardinality(DOMAIN disk) = 3
    /\ disk[<<3, 3>>].uncompressed_chunk_size = 1

\* the drain, pool.~ThreadPool(), has returned
Drained == pool = "destroyed"

\* C6 (as claimed): drain completeness.  When the drain has returned, the
\* queue is empty, no worker is running a task, and every submitted task has
\* been taken off the queue.
C6_DrainComplete ==
    Drained =>
        /\ tasks = <<>>
        /\ \A w \in Workers : threads[w].pc # "task"
        /\ \A t \in 0..(NumTasks - 1) : \E j \in 1..Len(taken) : taken[j] = t

\* C7 (as claimed): error propagation.  A run in which an error was raised
\* ends in main's handler: message on the error stream, exit status 1.
C7_ErrorsCaught ==
    (status \notin {"running", "crash"} /\ thrown # "")
        => (status = "exit1" /\ cerr = thrown)

\* the errors a task can raise
TaskErrors == {"Compression failed", "Decompression failed", "CRC32 checksum mismatch"}

\* C8 (as claimed): per-item failure recording.  The failure of a task does
\* not end the run: the process keeps running with the item unprocessed, the
\* drain completes and the pipeline raises the chunk-processing error.
C8_FailureRecorded ==
    thrown \in TaskErrors =>
        /\ status = "running"
        /\ \E t \in DOMAIN chunks : ~chunks[t].processed

\* C9: record-set invariants.  Every record compress_file has written has
\* chunk_index i in file chunk_{i+1}_of_{total_chunks}, the run's total_chunks
\* and original_file_size, and compressed_size equal to the length of its
\* payload; after a successful run the indices cover [0, total_chunks) once.
C9_RecordSet ==
    (mode = "c" /\ tamper = NoTamper) =>
        /\ \A f \in DOMAIN disk :
              /\ f = <<disk[f].chunk_index + 1, disk[f].total_chunks>>
              /\ disk[f].total_chunks = num_chunks
              /\ disk[f].original_file_size = Len(input)
              /\ disk[f].compressed_size = Len(disk[f].payload)
              /\ disk[f].chunk_index \in 0..(num_chunks - 1)
        /\ Succeeded =>
              \A idx \in 0..(num_chunks - 1) :
                  Cardinality({f \in DOMAIN disk : disk[f].chunk_index = idx}) = 1

\* C9 witness: a successful run that wrote several records
C9_Witness ==
    /\ mode = "c" /\ status = "exit0" /\ num_chunks >= 3
    /\ Cardinality(DOMAIN disk) = num_chunks

\* C10: abort before output.  In compress_file, when a chunk is unprocessed
\* after the drain, no record has been written and none is: the function
\* leaves with the chunk-processing error and the run does not succeed.
C10_AbortBeforeOutput ==
    (mode = "c" /\ Drained /\ \E k \in DOMAIN chunks : ~chunks[k].processed) =>
        /\ DOMAIN disk = {}
        /\ pc \in {"scope_exit", "main"} => thrown = "Chunk processing failed"
        /\ status # "exit0"

\* C10 witness: the run failed with the chunk-processing error over several
\* chunks and wrote nothing
C10_Witness ==
    /\ mode = "c" /\ status = "exit1" /\ cerr = "Chunk processing failed"
    /\ num_chunks >= 2 /\ DOMAIN disk = {}
    /\ \E k \in DOMAIN chunks : ~chunks[k].processed

\* C11 (as claimed): own-header verification.  On a complete chunk set, the
\* task that processes slot t reads the header of the record whose
\* chunk_index is t, whatever the order of the sorted file list.
C11_OwnHeader ==
    (mode = "d" /\ CompleteSet) =>
        \A w \in Workers :
            threads[w].pc = "task" =>
                disk[chunk_files[threads[w].task + 1]].chunk_index = threads[w].task

\* the chunk files whose header and payload the loading loop has read so far
Loaded ==
    IF mode = "c" \/ pc = "d_begin" THEN {}
    ELSE IF thrown \in {"No chunk files found in directory", "Invalid chunk file format"}
    THEN {}
    ELSE IF pc = "d_load" THEN {chunk_files[j] : j \in 1..i}
    ELSE {chunk_files[j] : j \in 1..Min(Len(chunk_files), first_metadata.total_chunks)}

\* C12 (as claimed): magic validation on every header read.  No record
\* whose magic tag is not "DCHUNKV1" has its payload loaded into a slot: the
\* run fails with the format error when it reads such a header.
C12_MagicEveryHeader ==
    \A f \in Loaded : disk[f].magic = MAGIC

\* the data of the slots 0 .. k-1, one after the other
RECURSIVE Concat(_)
Concat(k) == IF k = 0 THEN <<>> ELSE Concat(k - 1) \o chunks[k - 1].data

\* C13: ordered, buffered reassembly.  During the reassembly loop the buffer
\* holds fewer than BUFFER_SIZE bytes between two steps, every write so far
\* was a full buffer, and the bytes written followed by the buffer are the
\* data of the slots 0 .. i-1 and the first bytes_read bytes of slot i, in
\* that order; after the loop the buffer is empty and the output is the
\* data of all slots in index order.
C13_OrderedReassembly ==
    /\ (mode = "d" /\ pc \in {"d_check", "d_push"}) =>
          /\ Len(buffer) < BUFFER_SIZE
          /\ Len(out.bytes) % BUFFER_SIZE = 0
          /\ i <= first_metadata.total_chunks
          /\ out.bytes \o buffer =
                Concat(i) \o (IF pc = "d_push" THEN SubSeq(chunks[i].data, 1, bytes_read)
                              ELSE <<>>)
    /\ (mode = "d" /\ out.exists /\ Succeeded) =>
          /\ buffer = <<>>
          /\ out.bytes = Concat(first_metadata.total_chunks)

\* C13 witness: a successful reassembly of several chunks whose last write
\* was a partly filled buffer
C13_Witness ==
    /\ mode = "d" /\ out.exists /\ Succeeded /\ status = "exit0"
    /\ first_metadata.total_chunks >= 2
    /\ Len(out.bytes) > BUFFER_SIZE
    /\ Len(out.bytes) % BUFFER_SIZE # 0

\* the workers that are running the task of slot k
Running_Task(k) == {w \in Workers : threads[w].pc = "task" /\ threads[w].task = k}

\* C14: slot exclusivity.  While the pool is live a slot changes only in a
\* step of the one worker that runs the task of that slot, and the main
\* thread is at a statement that reads the slots' results only when the
\* drain has returned and every worker thread has returned.
C14_SlotExclusive ==
    /\ [](pc \in {"c_write", "d_check", "d_push"} =>
            /\ Drained
            /\ \A w \in Workers : threads[w].pc \in {"done", "joined"})
    /\ [][(pool = "live" /\ pool' = "live") =>
            \A k \in DOMAIN chunks :
                chunks'[k] # chunks[k] =>
                    /\ Cardinality(Running_Task(k)) = 1
                    /\ \A w \in Running_Task(k) :
                          threads'[w].pc = "lock" \/ status' = "terminate"
                    /\ \A j \in DOMAIN chunks \ {k} : chunks'[j] = chunks[j]]_vars

\* C14 witness: two workers run the tasks of two slots at the same time
\* while a third slot has its result already
C14_Witness ==
    /\ mode = "d" /\ pool = "live"
    /\ \E v, w \in Workers :
          /\ threads[v].pc = "task" /\ threads[w].pc = "task"
          /\ threads[v].task # threads[w].task
    /\ \E k \in DOMAIN chunks : chunks[k].processed

\* C15 (as claimed): single drain.  The teardown of the pool (stop, notify,
\* join) never runs a second time on the pool of an invocation, and a run
\* that constructed a pool and came back to main has torn it down once.
C15_SingleDrain ==
    /\ teardowns <= 1
    /\ (status \in {"exit0", "exit1"} /\ pool # "none") => teardowns = 1

\* C16: drain liveness.  Under a fair scheduler, once ~ThreadPool() has been
\* entered the teardown returns with every worker joined, unless a task has
\* ended the process first: no worker stays blocked on the condition
\* variable after stop is set.
C16_DrainLiveness ==
    (Running /\ pc = "dtor") ~>
        \/ Drained /\ \A w \in Workers : threads[w].pc = "joined"
        \/ ~Running

\* C16 witness: the teardown has returned in a run with several workers and
\* several tasks, all workers joined and the process alive
C16_Witness ==
    /\ Drained /\ Running /\ pc = AfterDrain
    /\ hw >= 2 /\ NumTasks >= 2
    /\ \A w \in Workers : threads[w].pc = "joined"

\* the number of tasks the main thread has put on the queue of its pool
Submitted ==
    IF pool = "none" THEN 0
    ELSE IF pc = "enq" THEN i
    ELSE IF pc = "enq_notify" THEN i + 1
    ELSE NumTasks

\* C17 (as claimed): exactly-once execution.  The tasks taken off the queue
\* followed by the tasks still on it are the submitted tasks 0, 1, 2, ... in
\* submission order, each once; a task is run by one worker at a time; a
\* task that was taken and is no longer running has left its result; no slot
\* has a result whose task was not taken; when the pool is gone every
\* submitted task has been taken and run; and a worker that runs a task
\* stays with that task until it has completed it.
C17_ExactlyOnce ==
    /\ [](pool # "none" =>
            /\ Drained =>
                  /\ Len(taken) = Submitted
                  /\ \A k \in DOMAIN chunks : chunks[k].processed
            /\ taken \o tasks = [j \in 1..Submitted |-> j - 1]
            /\ \A w \in Workers :
                  threads[w].pc = "task" =>
                      /\ \E j \in 1..Len(taken) : taken[j] = threads[w].task
                      /\ Running_Task(threads[w].task) = {w}
            /\ \A j \in 1..Len(taken) :
                  Running_Task(taken[j]) = {} => chunks[taken[j]].processed
            /\ \A k \in DOMAIN chunks :
                  chunks[k].processed => \E j \in 1..Len(taken) : taken[j] = k)
    /\ [][\A w \in Workers \cap DOMAIN threads' :
            threads[w].pc = "task" =>
                \/ threads'[w] = threads[w]
                \/ /\ threads'[w].pc = "lock"
                   /\ chunks'[threads[w].task].processed]_vars

\* C18 (as claimed): slot index in bounds.  The chunk_index with which the
\* loading loop is about to select a slot is below the number of slots, the
\* total_chunks of the lexically first record.
C18_SlotIndexInBounds ==
    (mode = "d" /\ pc = "d_load") =>
        disk[chunk_files[i + 1]].chunk_index < first_metadata.total_chunks

\* C19 (as claimed): file-list index in bounds.  The index t with which a
\* task of decompress_file opens chunk_files[t] is below the number of
\* discovered chunk files.
C19_FileIndexInBounds ==
    mode = "d" =>
        \A w \in Workers : threads[w].pc = "task" => threads[w].task < Len(chunk_files)

\* C20 (as claimed): reading terminates.  Every iteration of the inner read
\* loop of compress_file reads at least one byte, so that bytes_read reaches
\* bytes_to_read and the loop ends, also on a file that has become shorter
\* than the size measured at the start.
C20_ReadingTerminates ==
    (Running /\ pc = "c_read") =>
        Gcount((i * CHUNK_SIZE) + bytes_read,
               Min(BUFFER_SIZE,
                   Min(CHUNK_SIZE, file_size - (i * CHUNK_SIZE)) - bytes_read)) > 0

====
